---- MODULE Spec2Model ----
(***************************************************************************)
(* gen.py: the type registry built from a CastXML document, the per-kind   *)
(* resolve / resolve_ffi_type methods, and the serialisation of every      *)
(* Function element into a signature record.                               *)
(***************************************************************************)
EXTENDS Naturals, Sequences, FiniteSets, TLC

VARIABLES doc, types, aliases, functions, pc, fi, chunks, stdout, err

vars == <<doc, types, aliases, functions, pc, fi, chunks, stdout, err>>

(***************************************************************************)
(* Bounds of the documents that are enumerated.                            *)
(***************************************************************************)
NumTypes == 3

\* Ids of the non-Function elements: the element at position i carries id i.
TypeIds == 1..NumTypes
\* The ids an attribute may reference: 0 is carried by no element of the document.
RefIds == 0..NumTypes
\* The ids the element at position i may reference: no element references itself.
RefIdsAt(i) == RefIds \ {i}

(***************************************************************************)
(* The tags AST.__init__ registers.                                        *)
(***************************************************************************)
TYPES ==
  {"Typedef", "PointerType", "FundamentalType", "ElaboratedType",
   "CvQualifiedType", "ArrayType", "FunctionType", "Struct"}

\* The failures: a registry lookup of an absent id, an unimplemented method,
\* and the interpreter cutting an unbounded recursion.
KeyError == "KeyError"
NotImplementedError == "NotImplementedError"
RecursionError == "RecursionError"

\* Python's None, as json.dumps prints it.
None == "null"

Ok(v) == [kind |-> "ok", val |-> v]
Raise(e) == [kind |-> e, val |-> ""]

(***************************************************************************)
(* The elements of the input document.                                     *)
(***************************************************************************)
Sizes == {"8", "32", "64"}
Keywords == {"struct", "union"}

FundamentalName(size) ==
  CASE size = "8" -> "unsigned char"
    [] size = "64" -> "unsigned long"
    [] OTHER -> "int"

TypeEl(tag, id, name, type, size, keyword, max) ==
  [tag |-> tag, id |-> id, name |-> name, type |-> type, size |-> size,
   keyword |-> keyword, max |-> max]

\* The elements position i may hold: one of the 8 registered kinds, or an
\* Enumeration (a kind gen.py does not register).  Every element carries
\* the attributes its kind reads (el.get never returns None for them).
ElementsAt(i) ==
  {TypeEl("Typedef", i, "T" \o ToString(i), t, "", "", "") : t \in RefIdsAt(i)}
  \cup {TypeEl("PointerType", i, "", t, "", "", "") : t \in RefIdsAt(i)}
  \cup {TypeEl("FundamentalType", i, FundamentalName(s), 0, s, "", "") : s \in Sizes}
  \cup {TypeEl("CvQualifiedType", i, "", t, "", "", "") : t \in RefIdsAt(i)}
  \cup {TypeEl("ElaboratedType", i, "", t, "", k, "") : t \in RefIdsAt(i), k \in Keywords}
  \cup {TypeEl("ArrayType", i, "", t, "", "", "7") : t \in RefIdsAt(i)}
  \cup {TypeEl("Struct", i, "S" \o ToString(i), 0, "", "", "")}
  \cup {TypeEl("FunctionType", i, "", 0, "", "", "")}
  \cup {TypeEl("Enumeration", i, "E" \o ToString(i), 0, "", "", "")}

ArgEl(j, type) == [tag |-> "Argument", name |-> "a" \o ToString(j), type |-> type]

FunctionEl(k, returns, args) ==
  [tag |-> "Function", id |-> NumTypes + k, name |-> "f" \o ToString(k),
   returns |-> returns, args |-> args]

(***************************************************************************)
(* Outcomes of the methods.  A method returns Ok(value) or raises.         *)
(***************************************************************************)
\* The deepest chain of registry lookups an acyclic registry allows; a
\* deeper recursion revisits a node, never returns, and ends at the
\* interpreter's recursion limit.
RecursionLimit == NumTypes

RECURSIVE Resolve(_, _)
RECURSIVE ResolveFfiType(_, _)

\* The methods of each class, for the node el at recursion depth d.
\* Type.resolve and Type.resolve_ffi_type are what a class without its own
\* method inherits.
TypeResolve(el, d) == Raise(NotImplementedError)

\* As TypeResolveFfiType, but an unclassified kind yields the absent tag.
TypeResolveFfiTypeSilent(el, d) == Ok(None)

TypeResolveFfiType(el, d) == Raise(NotImplementedError)

\* As TypedefResolve, but expanding the aliased type structurally.
TypedefResolveExpanding(el, d) == Resolve(el.type, d + 1)

TypedefResolve(el, d) == Ok(el.name)

\* As TypedefResolveFfiType, but without the override of the base method.
TypedefResolveFfiTypeInherited(el, d) == Raise(NotImplementedError)

TypedefResolveFfiType(el, d) == ResolveFfiType(el.type, d + 1)

\* As PointerTypeResolve, but looking the alias up under the referenced id.
PointerTypeResolveByReferenced(el, d) ==
  IF el.type \in DOMAIN aliases
  THEN Ok(aliases[el.type])
  ELSE LET r == Resolve(el.type, d + 1)
       IN IF r.kind = "ok" THEN Ok(r.val \o " *") ELSE r

PointerTypeResolve(el, d) ==
  IF el.id \in DOMAIN aliases
  THEN Ok(aliases[el.id])
  ELSE LET r == Resolve(el.type, d + 1)
       IN IF r.kind = "ok" THEN Ok(r.val \o " *") ELSE r

PointerTypeResolveFfiType(el, d) == Ok("pointer")

FundamentalTypeResolve(el, d) == Ok(el.name)

\* As FundamentalTypeResolveFfiType, but raising at an unexpected size.
FundamentalTypeResolveFfiTypeStrict(el, d) ==
  IF el.size = "8" THEN Ok("uchar")
  ELSE IF el.size = "64" THEN Ok("ulong")
  ELSE Raise(NotImplementedError)

FundamentalTypeResolveFfiType(el, d) ==
  IF el.size = "8" THEN Ok("uchar")
  ELSE IF el.size = "64" THEN Ok("ulong")
  ELSE Ok(None)

\* As CvQualifiedTypeResolve, but tolerating an unregistered referenced id.
CvQualifiedTypeResolveLenient(el, d) ==
  IF el.type \notin DOMAIN types THEN Ok("const")
  ELSE LET r == Resolve(el.type, d + 1)
       IN IF r.kind = "ok" THEN Ok("const " \o r.val) ELSE r

CvQualifiedTypeResolve(el, d) ==
  LET r == Resolve(el.type, d + 1)
  IN IF r.kind = "ok" THEN Ok("const " \o r.val) ELSE r

ElaboratedTypeResolve(el, d) ==
  IF el.keyword = "struct"
  THEN Resolve(el.type, d + 1)
  ELSE Raise(NotImplementedError)

ArrayTypeResolve(el, d) ==
  LET r == Resolve(el.type, d + 1)
  IN IF r.kind = "ok" THEN Ok(r.val \o "[" \o el.max \o "]") ELSE r

StructResolve(el, d) == Ok("struct " \o el.name)

\* self.types[id].resolve(): the lookup, then the method of the node's class.
Resolve(id, d) ==
  IF id \notin DOMAIN types THEN Raise(KeyError)
  ELSE IF d > RecursionLimit THEN Raise(RecursionError)
  ELSE LET el == types[id]
       IN CASE el.tag = "Typedef" -> TypedefResolve(el, d)
            [] el.tag = "PointerType" -> PointerTypeResolve(el, d)
            [] el.tag = "FundamentalType" -> FundamentalTypeResolve(el, d)
            [] el.tag = "CvQualifiedType" -> CvQualifiedTypeResolve(el, d)
            [] el.tag = "ElaboratedType" -> ElaboratedTypeResolve(el, d)
            [] el.tag = "ArrayType" -> ArrayTypeResolve(el, d)
            [] el.tag = "Struct" -> StructResolve(el, d)
            [] OTHER -> TypeResolve(el, d)

\* self.types[id].resolve_ffi_type(), likewise.
ResolveFfiType(id, d) ==
  IF id \notin DOMAIN types THEN Raise(KeyError)
  ELSE IF d > RecursionLimit THEN Raise(RecursionError)
  ELSE LET el == types[id]
       IN CASE el.tag = "Typedef" -> TypedefResolveFfiType(el, d)
            [] el.tag = "PointerType" -> PointerTypeResolveFfiType(el, d)
            [] el.tag = "FundamentalType" -> FundamentalTypeResolveFfiType(el, d)
            [] OTHER -> TypeResolveFfiType(el, d)

(***************************************************************************)
(* Function.to_json                                                        *)
(***************************************************************************)
\* The loop over the Argument children: each argument resolves its display
\* string, then its ffi type; the first failure ends the call.
RECURSIVE ToJsonArguments(_, _)
ToJsonArguments(args, acc) ==
  IF args = <<>> THEN Ok(acc)
  ELSE LET arg == Head(args)
           t == Resolve(arg.type, 0)
           ffi == ResolveFfiType(arg.type, 0)
       IN IF t.kind # "ok" THEN t
          ELSE IF ffi.kind # "ok" THEN ffi
          ELSE ToJsonArguments(Tail(args),
                 Append(acc, [type |-> t.val, name |-> arg.name, ffitype |-> ffi.val]))

ToJson(f) ==
  LET returns == Resolve(f.returns, 0)
      arguments == ToJsonArguments(f.args, <<>>)
  IN IF returns.kind # "ok" THEN returns
     ELSE IF arguments.kind # "ok" THEN arguments
     ELSE Ok([name |-> f.name, returns |-> returns.val, arguments |-> arguments.val])

(***************************************************************************)
(* AST.__init__                                                            *)
(***************************************************************************)
\* root.iter(tag): the elements of that tag, in document order.
Iter(els, tag) == SelectSeq(els, LAMBDA el : el.tag = tag)

\* d with key k set to v (a dict assignment).
SetItem(d, k, v) == [x \in DOMAIN d \cup {k} |-> IF x = k THEN v ELSE d[x]]

EmptyDict == [x \in {} |-> 0]

\* As BuildTypes, but registering the elements of every tag.
RECURSIVE BuildTypesAnyTag(_, _)
BuildTypesAnyTag(els, d) ==
  IF els = <<>> THEN d
  ELSE BuildTypesAnyTag(Tail(els), SetItem(d, Head(els).id, Head(els)))

RECURSIVE BuildTypes(_, _)
BuildTypes(els, d) ==
  IF els = <<>> THEN d
  ELSE LET el == Head(els)
       IN IF el.tag \notin TYPES THEN BuildTypes(Tail(els), d)
          ELSE BuildTypes(Tail(els), SetItem(d, el.id, el))

\* As BuildAliases, but keeping the first alias recorded for an id.
RECURSIVE BuildAliasesFirstWins(_, _)
BuildAliasesFirstWins(els, d) ==
  IF els = <<>> THEN d
  ELSE LET el == Head(els)
       IN IF el.type \in DOMAIN d
          THEN BuildAliasesFirstWins(Tail(els), d)
          ELSE BuildAliasesFirstWins(Tail(els), SetItem(d, el.type, el.name))

RECURSIVE BuildAliases(_, _)
BuildAliases(els, d) ==
  IF els = <<>> THEN d
  ELSE LET el == Head(els)
       IN BuildAliases(Tail(els), SetItem(d, el.type, el.name))

\* As BuildFunctions, but collecting the functions newest first.
RECURSIVE Reversed(_)
Reversed(q) == IF q = <<>> THEN <<>> ELSE Append(Reversed(Tail(q)), Head(q))

BuildFunctionsNewestFirst(els) == Reversed(Iter(els, "Function"))

BuildFunctions(els) == Iter(els, "Function")

(***************************************************************************)
(* The run: AST(root), json.dumps over the functions, print.               *)
(***************************************************************************)
\* The Function elements of every document.  f1 returns id 1 and takes id
\* 2; f2 returns id 3 and takes ids 2 and 1; f3 returns id 2 and takes
\* nothing.  The elements carrying the ids range over every kind.
Functions ==
  <<FunctionEl(1, 1, <<ArgEl(1, 2)>>),
    FunctionEl(2, 3, <<ArgEl(1, 2), ArgEl(2, 1)>>),
    FunctionEl(3, 2, <<>>)>>

\* The element ET.parse delivers at position p of the document: the Function
\* elements come first, the type elements after them.
ElementsAtPosition(p) ==
  IF p <= Len(Functions) THEN {Functions[p]} ELSE ElementsAt(p - Len(Functions))

DocLen == Len(Functions) + NumTypes

Init ==
  /\ doc = <<>>
  /\ types = EmptyDict
  /\ aliases = EmptyDict
  /\ functions = <<>>
  /\ pc = "parse"
  /\ fi = 1
  /\ chunks = <<>>
  /\ stdout = <<>>
  /\ err = ""

\* ET.parse reads the next element of the input file.
Parse ==
  /\ pc = "parse"
  /\ Len(doc) < DocLen
  /\ \E el \in ElementsAtPosition(Len(doc) + 1) : doc' = Append(doc, el)
  /\ UNCHANGED <<types, aliases, functions, pc, fi, chunks, stdout, err>>

\* AST(root): the three loops of AST.__init__ over the parsed document.
Construct ==
  /\ pc = "parse"
  /\ Len(doc) = DocLen
  /\ types' = BuildTypes(doc, EmptyDict)
  /\ aliases' = BuildAliases(Iter(doc, "Typedef"), EmptyDict)
  /\ functions' = BuildFunctions(doc)
  /\ pc' = "dumps"
  /\ UNCHANGED <<doc, fi, chunks, stdout, err>>

\* As Default, but writing each record out as soon as it is serialised.
DefaultStreaming ==
  /\ pc = "dumps"
  /\ fi <= Len(functions)
  /\ LET r == ToJson(functions[fi])
     IN IF r.kind = "ok"
        THEN /\ chunks' = Append(chunks, r.val)
             /\ stdout' = Append(stdout, r.val)
             /\ fi' = fi + 1
             /\ UNCHANGED <<pc, err>>
        ELSE /\ pc' = "failed"
             /\ err' = r.kind
             /\ UNCHANGED <<chunks, fi, stdout>>
  /\ UNCHANGED <<doc, types, aliases, functions>>

\* json.dumps reaches the next Function and FunctionEncoder.default calls to_json.
Default ==
  /\ pc = "dumps"
  /\ fi <= Len(functions)
  /\ LET r == ToJson(functions[fi])
     IN IF r.kind = "ok"
        THEN /\ chunks' = Append(chunks, r.val)
             /\ fi' = fi + 1
             /\ UNCHANGED <<pc, err>>
        ELSE /\ pc' = "failed"
             /\ err' = r.kind
             /\ UNCHANGED <<chunks, fi>>
  /\ UNCHANGED <<doc, types, aliases, functions, stdout>>

\* json.dumps returned the whole text: print writes it.
PrintOutput ==
  /\ pc = "dumps"
  /\ fi > Len(functions)
  /\ stdout' = chunks
  /\ pc' = "done"
  /\ UNCHANGED <<doc, types, aliases, functions, fi, chunks, err>>

Next == Parse \/ Construct \/ Default \/ PrintOutput

Spec == Init /\ [][Next]_vars

(***************************************************************************)
(* Vocabulary of the properties.                                           *)
(***************************************************************************)
\* AST(root) has returned: the registry and the alias table are built.
Built == pc # "parse"

\* The positions of the Typedef elements of the document that reference id.
TypedefsOf(id) ==
  {i \in 1..Len(doc) : doc[i].tag = "Typedef" /\ doc[i].type = id}

LastTypedefOf(id) ==
  CHOOSE i \in TypedefsOf(id) : \A j \in TypedefsOf(id) : j <= i

IsNode(id, tag) == id \in DOMAIN types /\ types[id].tag = tag

\* C1: a PointerType that some Typedef element references resolves to the
\* name of that Typedef (the alias recorded for the pointer's own id); any
\* other PointerType resolves to the display of the node it references
\* followed by " *", or fails as that resolution fails.
C1_PointerAliasWins ==
  Built =>
    \A id \in DOMAIN types :
      types[id].tag = "PointerType" =>
        IF TypedefsOf(id) # {}
        THEN Resolve(id, 0) = Ok(doc[LastTypedefOf(id)].name)
        ELSE LET r == Resolve(types[id].type, 0)
             IN Resolve(id, 0) = IF r.kind = "ok" THEN Ok(r.val \o " *") ELSE r

\* A run printed an aliased pointer argument by its alias although its
\* structural expansion resolves too.
C1_Witness ==
  /\ pc = "done"
  /\ IsNode(2, "PointerType")
  /\ TypedefsOf(2) # {}
  /\ Resolve(types[2].type, 0).kind = "ok"
  /\ stdout[1].arguments[1].type = doc[LastTypedefOf(2)].name
  /\ stdout[1].arguments[1].type # Resolve(types[2].type, 0).val \o " *"

\* The arguments of the functions whose direct type is a FundamentalType of
\* a size other than 8 and 64, as <<function, argument>> positions.
ArgumentPositions ==
  UNION {{<<k, j>> : j \in 1..Len(functions[k].args)} : k \in 1..Len(functions)}

OddSizeArguments ==
  {ka \in ArgumentPositions :
     /\ IsNode(functions[ka[1]].args[ka[2]].type, "FundamentalType")
     /\ types[functions[ka[1]].args[ka[2]].type].size \notin {"8", "64"}}

\* C2: a FundamentalType classifies as "uchar" at size 8, as "ulong" at size
\* 64 and as the absent tag, without a failure, at any other size; a
\* function with such an argument is still printed, its ffi-type absent.
C2_FundamentalFfiType ==
  Built =>
    /\ \A id \in DOMAIN types :
         types[id].tag = "FundamentalType" =>
           ResolveFfiType(id, 0) =
             CASE types[id].size = "8" -> Ok("uchar")
               [] types[id].size = "64" -> Ok("ulong")
               [] OTHER -> Ok(None)
    /\ pc = "done" =>
         \A ka \in OddSizeArguments :
           stdout[ka[1]].arguments[ka[2]].ffitype = None

\* A printed run with a 32-bit argument.
C2_Witness ==
  /\ pc = "done"
  /\ OddSizeArguments # {}
  /\ \E ka \in OddSizeArguments : stdout[ka[1]].arguments[ka[2]].ffitype = None

\* C3: a Typedef whose referenced id is registered classifies exactly as the
\* node it references does: the same tag, the same absent tag or the same
\* failure.
C3_TypedefPassThrough ==
  Built =>
    \A id \in DOMAIN types :
      (types[id].tag = "Typedef" /\ types[id].type \in DOMAIN types) =>
        ResolveFfiType(id, 0) = ResolveFfiType(types[id].type, 0)

\* A printed run whose second function takes a Typedef of a Typedef of an
\* 8-bit FundamentalType.
C3_Witness ==
  /\ pc = "done"
  /\ IsNode(1, "Typedef")
  /\ IsNode(types[1].type, "Typedef")
  /\ IsNode(types[types[1].type].type, "FundamentalType")
  /\ stdout[2].arguments[2].ffitype = "uchar"

\* C4: a run that succeeds prints one record per Function element, in
\* document order, each with one entry per Argument child, in document
\* order, under the argument's own name.
C4_OneRecordPerFunctionInOrder ==
  pc = "done" =>
    LET fs == Iter(doc, "Function")
    IN /\ Len(stdout) = Len(fs)
       /\ \A k \in 1..Len(fs) :
            /\ stdout[k].name = fs[k].name
            /\ stdout[k].returns = Resolve(fs[k].returns, 0).val
            /\ Len(stdout[k].arguments) = Len(fs[k].args)
            /\ \A j \in 1..Len(fs[k].args) :
                 /\ stdout[k].arguments[j].name = fs[k].args[j].name
                 /\ stdout[k].arguments[j].type = Resolve(fs[k].args[j].type, 0).val
                 /\ stdout[k].arguments[j].ffitype =
                      ResolveFfiType(fs[k].args[j].type, 0).val

\* A printed run whose two-argument function has arguments that print
\* differently.
C4_Witness ==
  /\ pc = "done"
  /\ Len(stdout) = 3
  /\ stdout[2].arguments[1].type # stdout[2].arguments[2].type
  /\ stdout[1].returns # stdout[2].returns

\* C5: when the resolution of any function fails, the run ends failed and
\* nothing is printed, the records of the functions before it included.
C5_FailFastNoPartialOutput ==
  /\ pc = "failed" => (stdout = <<>> /\ err # "")
  /\ stdout # <<>> => pc = "done"
  /\ (Built /\ \E k \in 1..Len(functions) : ToJson(functions[k]).kind # "ok") =>
       pc # "done"

\* A run that failed in its second function, the first one serialised.
C5_Witness ==
  /\ pc = "failed"
  /\ fi = 2
  /\ Len(chunks) = 1
  /\ stdout = <<>>

(***************************************************************************)
(* The reference graph of the registry.                                    *)
(***************************************************************************)
\* The kinds that carry a referenced-type id.
RefKinds ==
  {"Typedef", "PointerType", "CvQualifiedType", "ElaboratedType", "ArrayType"}

\* Of those, the kinds that are neither a Typedef nor a Struct.
BareKinds == RefKinds \ {"Typedef"}

\* The node reached from id by n references through nodes of the given
\* kinds; 0 (no node) when the walk leaves those kinds or the registry.
RECURSIVE Walk(_, _, _)
Walk(id, n, kinds) ==
  IF n = 0 THEN id
  ELSE LET x == Walk(id, n - 1, kinds)
       IN IF x \in DOMAIN types /\ types[x].tag \in kinds THEN types[x].type ELSE 0

OnCycle(id, kinds) ==
  /\ id \in DOMAIN types
  /\ \E n \in 1..NumTypes : Walk(id, n, kinds) = id

\* C6: resolve returns a display string or fails after a chain of lookups
\* that visits no node twice, cycles of the reference graph through a
\* Typedef included; only a cycle made of PointerType, CvQualifiedType,
\* ElaboratedType and ArrayType nodes alone recurses up to the interpreter's
\* recursion limit, and that ends in a failure too.
C6_ResolveTerminates ==
  Built =>
    \A id \in DOMAIN types :
      LET r == Resolve(id, 0)
      IN /\ r.kind \in {"ok", KeyError, NotImplementedError, RecursionError}
         /\ r.kind = RecursionError => \E x \in DOMAIN types : OnCycle(x, BareKinds)

\* A printed run whose first return type lies on a reference cycle.
C6_Witness ==
  /\ pc = "done"
  /\ OnCycle(1, RefKinds)
  /\ ~ \E x \in DOMAIN types : OnCycle(x, BareKinds)
  /\ stdout[1].returns = Resolve(1, 0).val

Unclassified ==
  {"CvQualifiedType", "ElaboratedType", "ArrayType", "Struct", "FunctionType"}

\* The node a chain of Typedefs from id ends in (0: none).
RECURSIVE TypedefChainEnd(_, _)
TypedefChainEnd(id, n) ==
  IF id \notin DOMAIN types THEN 0
  ELSE IF types[id].tag # "Typedef" THEN id
  ELSE IF n = 0 THEN 0
  ELSE TypedefChainEnd(types[id].type, n - 1)

\* C7: resolve_ffi_type raises the unimplemented-resolution failure for a
\* CvQualifiedType, ElaboratedType, ArrayType, Struct or FunctionType node,
\* returns "pointer" for a PointerType, and returns at all only for a
\* PointerType, a FundamentalType or a chain of Typedefs ending in one; a
\* run with an argument whose direct type is one of the five never prints.
C7_UnclassifiedKindsRaise ==
  Built =>
    /\ \A id \in DOMAIN types :
         LET r == ResolveFfiType(id, 0)
             end == TypedefChainEnd(id, NumTypes)
         IN /\ types[id].tag \in Unclassified => r = Raise(NotImplementedError)
            /\ types[id].tag = "PointerType" => r = Ok("pointer")
            /\ r.kind = "ok" =>
                 /\ end \in DOMAIN types
                 /\ types[end].tag \in {"PointerType", "FundamentalType"}
    /\ (\E ka \in ArgumentPositions :
          /\ functions[ka[1]].args[ka[2]].type \in DOMAIN types
          /\ types[functions[ka[1]].args[ka[2]].type].tag \in Unclassified)
         => (pc # "done" /\ stdout = <<>>)

\* A run failed on the classification of an argument whose display string
\* resolves.
C7_Witness ==
  /\ pc = "failed"
  /\ err = NotImplementedError
  /\ fi = 1
  /\ 2 \in DOMAIN types
  /\ types[2].tag \in Unclassified
  /\ Resolve(1, 0).kind = "ok"
  /\ Resolve(2, 0).kind = "ok"

\* The ids used as a type: by a Function, by an Argument, or by a node.
TypeIdsUsed ==
  {functions[k].returns : k \in 1..Len(functions)}
  \cup {functions[ka[1]].args[ka[2]].type : ka \in ArgumentPositions}
  \cup {types[x].type : x \in {y \in DOMAIN types : types[y].tag \in RefKinds}}

\* The type ids that belong to an element of the document whose tag is not
\* registered.
UnregisteredIds ==
  {doc[i].id : i \in {j \in 1..Len(doc) : doc[j].tag \notin TYPES}} \cap TypeIdsUsed

\* C8 as amended: resolving a FunctionType, or an ElaboratedType whose
\* keyword is not "struct", raises the unsupported-construct failure;
\* resolving or classifying the id of an element of an unregistered kind
\* raises the unresolved-reference failure.
C8_UnsupportedOrUnresolved ==
  Built =>
    /\ \A id \in DOMAIN types :
         /\ types[id].tag = "FunctionType" => Resolve(id, 0) = Raise(NotImplementedError)
         /\ (types[id].tag = "ElaboratedType" /\ types[id].keyword # "struct") =>
              Resolve(id, 0) = Raise(NotImplementedError)
    /\ \A id \in UnregisteredIds :
         /\ Resolve(id, 0) = Raise(KeyError)
         /\ ResolveFfiType(id, 0) = Raise(KeyError)

\* C8 as claimed: all three cases raise the unsupported-construct failure.
C8_Original ==
  Built =>
    /\ \A id \in DOMAIN types :
         /\ types[id].tag = "FunctionType" => Resolve(id, 0) = Raise(NotImplementedError)
         /\ (types[id].tag = "ElaboratedType" /\ types[id].keyword # "struct") =>
              Resolve(id, 0) = Raise(NotImplementedError)
    /\ \A id \in UnregisteredIds :
         /\ Resolve(id, 0) = Raise(NotImplementedError)
         /\ ResolveFfiType(id, 0) = Raise(NotImplementedError)

\* A run failed on a return type that is the id of an Enumeration.
C8_Witness ==
  /\ pc = "failed"
  /\ fi = 1
  /\ functions[1].returns \in UnregisteredIds
  /\ err = KeyError

(***************************************************************************)
(* The lookups a resolution performs.                                      *)
(***************************************************************************)
\* resolve looks the referenced id of this node up.
DisplayFollows(id) ==
  /\ id \in DOMAIN types
  /\ \/ types[id].tag \in {"CvQualifiedType", "ArrayType"}
     \/ types[id].tag = "ElaboratedType" /\ types[id].keyword = "struct"
     \/ types[id].tag = "PointerType" /\ TypedefsOf(id) = {}

\* The ids self.types is indexed with while id is resolved (n: the nodes
\* left to visit).
RECURSIVE DisplayLookups(_, _)
DisplayLookups(id, n) ==
  {id} \cup (IF DisplayFollows(id) /\ n > 0
             THEN DisplayLookups(types[id].type, n - 1) ELSE {})

\* The ids self.types is indexed with while id is classified.
RECURSIVE ClassifyLookups(_, _)
ClassifyLookups(id, n) ==
  {id} \cup (IF IsNode(id, "Typedef") /\ n > 0
             THEN ClassifyLookups(types[id].type, n - 1) ELSE {})

DisplayDangles(id) == DisplayLookups(id, NumTypes) \ DOMAIN types # {}
ClassifyDangles(id) == ClassifyLookups(id, NumTypes) \ DOMAIN types # {}

\* A lookup made for function f reaches an id absent from the registry.
LookupDangles(f) ==
  \/ DisplayDangles(f.returns)
  \/ \E j \in 1..Len(f.args) :
       DisplayDangles(f.args[j].type) \/ ClassifyDangles(f.args[j].type)

\* The registered nodes a function signature uses: its return and argument
\* types and every node those reference.
RECURSIVE UsedFrom(_, _)
UsedFrom(id, n) ==
  IF id \notin DOMAIN types THEN {}
  ELSE {id} \cup (IF types[id].tag \in RefKinds /\ n > 0
                  THEN UsedFrom(types[id].type, n - 1) ELSE {})

UsedNodes ==
  UNION {UsedFrom(functions[k].returns, NumTypes) : k \in 1..Len(functions)}
  \cup UNION {UsedFrom(functions[ka[1]].args[ka[2]].type, NumTypes) :
                ka \in ArgumentPositions}

UsedDangling ==
  \E id \in UsedNodes :
    types[id].tag \in RefKinds /\ types[id].type \notin DOMAIN types

\* C9 as amended: an id absent from the registry is fatal where a lookup
\* follows it.  When the display chain of a return or argument type (through
\* CvQualifiedType, ArrayType, struct ElaboratedType and un-aliased
\* PointerType nodes) or the Typedef chain of an argument type reaches an
\* absent id, the run never prints; it ends in the unresolved-reference
\* failure when the chain is that of the return type of the function that
\* fails.
C9_FollowedDanglingIsFatal ==
  Built =>
    \A k \in 1..Len(functions) :
      LookupDangles(functions[k]) =>
        /\ pc # "done"
        /\ stdout = <<>>
        /\ (pc = "failed" /\ fi = k /\ DisplayDangles(functions[k].returns)) =>
             err = KeyError

\* C9 as claimed: a run in which any node used by a function signature
\* carries an absent referenced-type id never prints.
C9_Original == (Built /\ UsedDangling) => (pc # "done" /\ stdout = <<>>)

\* A run failed on the classification of a Typedef argument whose
\* referenced id is absent, its display string resolved.
C9_Witness ==
  /\ pc = "failed"
  /\ err = KeyError
  /\ fi = 1
  /\ IsNode(2, "Typedef")
  /\ types[2].type \notin DOMAIN types
  /\ Resolve(1, 0).kind = "ok"
  /\ Resolve(2, 0).kind = "ok"

\* C10: once AST(root) has returned, the alias table holds, for exactly the
\* ids some Typedef element references, the name of the last such Typedef
\* of the document, and every record serialised so far is the one that
\* table gives.
C10_AliasTableLastWriterWins ==
  Built =>
    /\ DOMAIN aliases = {id \in RefIds : TypedefsOf(id) # {}}
    /\ \A id \in DOMAIN aliases : aliases[id] = doc[LastTypedefOf(id)].name
    /\ \A k \in 1..Len(chunks) : ToJson(functions[k]) = Ok(chunks[k])

\* A printed run in which two Typedefs alias the pointer that the first
\* function, which precedes both in the document, takes as its argument.
C10_Witness ==
  /\ pc = "done"
  /\ IsNode(2, "PointerType")
  /\ Cardinality(TypedefsOf(2)) = 2
  /\ \A i \in TypedefsOf(2) : i > 1
  /\ stdout[1].arguments[1].type = doc[LastTypedefOf(2)].name

====
